---- MODULE Spec2Model ----
(***************************************************************************)
(* A model of couchdb/multipart.py: the streaming MIME multipart writer    *)
(* (MultipartWriter, write_multipart) and reader (read_multipart).         *)
(*                                                                         *)
(* Text is modelled by TLA+ strings, character for character: a line ends  *)
(* with the two characters CR LF, and the sink is the string of everything *)
(* written to the file object so far.                                      *)
(***************************************************************************)
EXTENDS Integers, Sequences, FiniteSets, TLC

(***************************************************************************)
(* Bounds of the model.                                                    *)
(***************************************************************************)
\* add and open calls in one run of the writer that follows the protocol
MaxCalls == 3
\* add and open calls behind an envelope that is read back
MaxRead == 2
\* calls (add, open, close) in one run of the writer used in any call order
MaxAnyCalls == 3
\* chunks of lines in a line source given to the reader directly
MaxChunks == 4
\* names in a header set that is serialized on its own
MaxNames == 3
\* calls of the header block serializer on its own
MaxWrites == 2
\* calls in the body of a with-block
MaxBody == 2
\* command lines the view server reads
MaxCommands == 3

(***************************************************************************)
(* Strings.                                                                *)
(***************************************************************************)
EOL == "\r\n"

\* Python's None, where the code passes or returns it in place of a string
None == "<None>"

\* the i-th character of s (1-based), as a string of length 1
Char(s, i) == SubSeq(s, i, i)

\* the characters the model's texts are made of, in code point order
Ascii == "\n\r \"-./0123456789:;=ABCDEFGHIJKLMNOPQRSTUVWXYZ_abcdefghijklmnopqrstuvwxyz{}"

\* the first index >= i at which character c occurs in s, 0 if there is none
IndexFrom(s, c, i) ==
  LET S == { j \in i..Len(s) : SubSeq(s, j, j) = c } IN
  IF S = {} THEN 0 ELSE CHOOSE j \in S : \A k \in S : j <= k

\* ord(c): the place of c in code point order
Ord(c) == IndexFrom(Ascii, c, 1)

\* a < b as Python compares two str values: by the first character that
\* differs, a proper prefix being the lesser
StrLess(a, b) ==
  LET n == IF Len(a) < Len(b) THEN Len(a) ELSE Len(b)
      D == { i \in 1..n : Char(a, i) # Char(b, i) }
  IN IF D = {} THEN Len(a) < Len(b)
     ELSE LET i == CHOOSE j \in D : \A k \in D : j <= k
          IN Ord(Char(a, i)) < Ord(Char(b, i))

\* s.startswith(p), s.endswith(p)
StartsWith(s, p) == Len(p) <= Len(s) /\ SubSeq(s, 1, Len(p)) = p
EndsWith(s, p) == Len(p) <= Len(s) /\ SubSeq(s, Len(s) - Len(p) + 1, Len(s)) = p

Digits == "0123456789"

RECURSIVE StrOfNat(_)
\* str(n) for an int n >= 0: its decimal digits
StrOfNat(n) ==
  IF n < 10 THEN Char(Digits, n + 1)
  ELSE StrOfNat(n \div 10) \o Char(Digits, (n % 10) + 1)

Upper == "ABCDEFGHIJKLMNOPQRSTUVWXYZ"
Lowercase == "abcdefghijklmnopqrstuvwxyz"

\* c.lower() for one character
LowerChar(c) ==
  LET i == IndexFrom(Upper, c, 1) IN IF i = 0 THEN c ELSE Char(Lowercase, i)

RECURSIVE Lower(_)
\* s.lower()
Lower(s) ==
  IF Len(s) <= 1 THEN LowerChar(s)
  ELSE LET h == Len(s) \div 2 IN
       Lower(SubSeq(s, 1, h)) \o Lower(SubSeq(s, h + 1, Len(s)))

\* the characters str.strip() removes (of those the model's texts hold)
IsSpace(c) == c \in {" ", "\r", "\n", "\t"}

\* s.strip()
Strip(s) ==
  LET K == { i \in 1..Len(s) : ~IsSpace(Char(s, i)) } IN
  IF K = {} THEN ""
  ELSE SubSeq(s, CHOOSE i \in K : \A k \in K : i <= k,
                 CHOOSE i \in K : \A k \in K : k <= i)

\* the number of occurrences of character c in s[:n]
CountChar(s, c, n) == Cardinality({ i \in 1..n : Char(s, i) = c })

RECURSIVE Join(_)
\* ''.join(seq)
Join(seq) == IF seq = << >> THEN "" ELSE Head(seq) \o Join(Tail(seq))

RECURSIVE SplitLines(_)
\* the lines iterating a file object over text produces: each runs up to
\* and including its "\n"; a last line may lack it
SplitLines(text) ==
  IF text = "" THEN << >>
  ELSE LET i == IndexFrom(text, "\n", 1) IN
       IF i = 0 THEN << text >>
       ELSE << SubSeq(text, 1, i) >> \o SplitLines(SubSeq(text, i + 1, Len(text)))

(***************************************************************************)
(* cgi.parse_header, as read_multipart uses it.                            *)
(***************************************************************************)
RECURSIVE ParamEnd(_, _)
\* _parseparam: the index of the ';' that ends the first parameter of s,
\* from candidate end on: a ';' inside a quoted string is passed over
\* (0: there is none).  Texts of the model hold no backslash.
ParamEnd(s, end) ==
  IF end > 1 /\ CountChar(s, "\"", end - 1) % 2 = 1
  THEN ParamEnd(s, IndexFrom(s, ";", end + 1))
  ELSE end

RECURSIVE ParseParam(_)
\* _parseparam(s), s starting with ';': the parameters, each stripped
ParseParam(s) ==
  IF s = "" \/ Head(s) # ";" THEN << >>
  ELSE LET t == Tail(s)
           e == ParamEnd(t, IndexFrom(t, ";", 1))
           end == IF e = 0 THEN Len(t) + 1 ELSE e
       IN << Strip(SubSeq(t, 1, end - 1)) >>
            \o ParseParam(SubSeq(t, end, Len(t)))

\* the value of a parameter: stripped, and unquoted when in double quotes
ParamValue(v) ==
  LET value == Strip(v) IN
  IF Len(value) >= 2 /\ Head(value) = "\"" /\ Char(value, Len(value)) = "\""
  THEN SubSeq(value, 2, Len(value) - 1)
  ELSE value

(***************************************************************************)
(* Header mappings (Python dicts from str to str).                         *)
(***************************************************************************)
EmptyDict == [k \in {} |-> ""]

\* d[name] = value
DictSet(d, name, value) ==
  [k \in (DOMAIN d) \cup {name} |-> IF k = name THEN value ELSE d[k]]

\* d.get(name)
DictGet(d, name) == IF name \in DOMAIN d THEN d[name] ELSE None

\* the least of a non-empty set of strings
MinStr(S) == CHOOSE a \in S : \A b \in S : a = b \/ StrLess(a, b)

\* a faulty sorted(keys): the keys in an order that does not start ascending
SortedSeq_Unsorted(S) ==
  CHOOSE seq \in [1..Cardinality(S) -> S] :
    /\ \A i, j \in 1..Cardinality(S) : i # j => seq[i] # seq[j]
    /\ Cardinality(S) >= 2 => StrLess(seq[2], seq[1])

RECURSIVE SortedSeq(_)
\* sorted(keys)
SortedSeq(S) ==
  IF S = {} THEN << >>
  ELSE LET m == MinStr(S) IN << m >> \o SortedSeq(S \ {m})

RECURSIVE HeaderLines(_, _)
\* the writes of the loop of _write_headers over the names in the order given
HeaderLines(headers, names) ==
  IF names = << >> THEN ""
  ELSE Head(names) \o ": " \o headers[Head(names)] \o EOL
         \o HeaderLines(headers, Tail(names))

\* a faulty _write_headers: the blank line that ends the block is left out
WriteHeadersText_NoBlankLine(headers) ==
  HeaderLines(headers, SortedSeq(DOMAIN headers))

\* what _write_headers(headers) writes to the file object
WriteHeadersText(headers) ==
  (IF DOMAIN headers # {} THEN HeaderLines(headers, SortedSeq(DOMAIN headers))
   ELSE "") \o EOL

RECURSIVE ParamDict(_, _)
\* the pdict of parse_header: name=value parameters, a later one overwriting
ParamDict(parts, pdict) ==
  IF parts = << >> THEN pdict
  ELSE LET p == Head(parts)
           i == IndexFrom(p, "=", 1)
       IN ParamDict(Tail(parts),
            IF i > 0
            THEN DictSet(pdict, Lower(Strip(SubSeq(p, 1, i - 1))),
                         ParamValue(SubSeq(p, i + 1, Len(p))))
            ELSE pdict)

\* a faulty parse_header: a boundary parameter that is missing is taken to
\* be the empty one
ParseHeader_DefaultBoundary(line) ==
  LET parts == ParseParam(";" \o line)
      pdict == ParamDict(Tail(parts), EmptyDict)
  IN [key |-> Head(parts),
      pdict |-> IF "boundary" \in DOMAIN pdict THEN pdict
                ELSE DictSet(pdict, "boundary", "")]

\* parse_header(line) = (key, pdict)
ParseHeader(line) ==
  LET parts == ParseParam(";" \o line) IN
  [key |-> Head(parts), pdict |-> ParamDict(Tail(parts), EmptyDict)]

(***************************************************************************)
(* Inputs of the writer.                                                   *)
(***************************************************************************)
\* the subtype argument of write_multipart and open
Subtypes == {"mixed", "related"}

\* the boundary argument of the k-th Writer constructed: a token of its own
\* for every envelope, as the tokens _make_boundary generates are
Boundary(k) == "B" \o StrOfNat(k)

\* the mapping the caller owns and may pass as headers (by reference: 1),
\* as it is before the first call; 0 stands for headers=None
CallerDict == DictSet(EmptyDict, "Content-ID", "1")

\* the (headers, subtype) arguments of open
OpenArgs ==
  { [headers |-> 0, subtype |-> "mixed"],
    [headers |-> 1, subtype |-> "related"] }

\* the (mimetype, content, headers) arguments of add
Parts ==
  { [mimetype |-> "text/plain", content |-> "Just testing", headers |-> 0],
    [mimetype |-> "text/plain", content |-> "", headers |-> 0],
    [mimetype |-> "application/json", content |-> "{}\r\n\r\n1\r\n", headers |-> 1],
    [mimetype |-> "text/plain", content |-> "--B1", headers |-> 0] }

VARIABLES
  phase,    \* "init": no Writer yet; "write": Writer calls; "read": reading
  sink,     \* fileobj of the Writers: everything written so far
  writers,  \* the MultipartWriter objects, in order of construction
  dicts,    \* the caller's header mappings, by reference
  calls,    \* history: the calls made so far, in order, each with its
            \* arguments and the length of the sink when it was made
  proto,    \* history: every call so far followed the protocol
  lines,    \* fileobj of the readers: the line source
  pos,      \* the shared cursor: the number of lines consumed
  gens,     \* the read_multipart generators, in order of creation
  stack,    \* the generators executing, caller first; << >>: the consumer
  error,    \* the exception the consumer's last next() raised ("": none)
  drained,  \* history: no parent was advanced past an undrained nested one
  functions,  \* view server: the list functions of run, each function
              \* named by the source that defined it
  output,     \* view server: everything written to output so far
  commands,   \* history: the lines run has read, in order, each with
              \* the command json.loads made of it
  retvals     \* history: what the handlers returned, in order

wvars == << sink, writers, dicts, calls, proto >>
rvars == << lines, pos, gens, stack, error, drained >>
vvars == << functions, output, commands, retvals >>
vars == << phase, sink, writers, dicts, calls, proto, lines, pos, gens, stack, error,
           drained, functions, output, commands, retvals >>

\* run has not been called
NoView ==
  /\ functions = << >>
  /\ output = ""
  /\ commands = << >>
  /\ retvals = << >>

Init ==
  /\ phase = "init"
  /\ sink = ""
  /\ writers = << >>
  /\ dicts = << CallerDict >>
  /\ calls = << >>
  /\ proto = TRUE
  /\ lines = << >>
  /\ pos = 0
  /\ gens = << >>
  /\ stack = << >>
  /\ error = ""
  /\ drained = TRUE
  /\ NoView

(***************************************************************************)
(* MultipartWriter.                                                        *)
(***************************************************************************)
\* the headers object a method works on: the caller's mapping, or a new
\* empty one for headers=None
HeadersArg(ref) == IF ref = 0 THEN EmptyDict ELSE dicts[ref]

\* the caller's mappings after the method has set entries of its headers
\* object: a mapping passed by reference is the caller's own
DictsAfter(ref, headers) ==
  IF ref = 0 THEN dicts ELSE [dicts EXCEPT ![ref] = headers]

\* a faulty Content-Type of an envelope: the boundary parameter is left out
MultipartType_NoBoundary(subtype, boundary) == "multipart/" \o subtype

\* the Content-Type value __init__ synthesizes
MultipartType(subtype, boundary) ==
  "multipart/" \o subtype \o "; boundary=\"" \o boundary \o "\""

\* the headers object of __init__ once Content-Type is set
InitHeaders(ref, subtype, boundary) ==
  DictSet(HeadersArg(ref), "Content-Type", MultipartType(subtype, boundary))

\* what __init__ writes
InitText(ref, subtype, boundary) ==
  WriteHeadersText(InitHeaders(ref, subtype, boundary))

\* a faulty add: Content-Length is not set
AddHeaders_NoLength(ref, mimetype, content) ==
  DictSet(HeadersArg(ref), "Content-Type", mimetype)

\* the headers object of add once Content-Type and Content-Length are set
AddHeaders(ref, mimetype, content) ==
  DictSet(DictSet(HeadersArg(ref), "Content-Type", mimetype),
          "Content-Length", StrOfNat(Len(content)))

\* a faulty add: the line terminator is written after an empty content too
AddBodyText_Always(content) == content \o EOL

\* what add writes after the header block
AddBodyText(content) == IF content # "" THEN content \o EOL ELSE ""

\* what add writes
AddText(boundary, ref, mimetype, content) ==
  "--" \o boundary \o EOL
    \o WriteHeadersText(AddHeaders(ref, mimetype, content))
    \o AddBodyText(content)

\* a faulty close: the opening boundary line in place of the terminal one
CloseText_Opening(boundary) == "--" \o boundary \o EOL

\* what close writes
CloseText(boundary) == "--" \o boundary \o "--" \o EOL

\* a new Writer object (parent and closes are history, not fields)
NewWriter(boundary, parent) ==
  [boundary |-> boundary, parent |-> parent, closes |-> 0]

Writers == 1..Len(writers)
OpenWriters == { w \in Writers : writers[w].closes = 0 }

\* the Writer the protocol lets the caller use: the innermost unclosed one
Innermost ==
  IF OpenWriters = {} THEN 0
  ELSE CHOOSE w \in OpenWriters : \A v \in OpenWriters : v <= w

\* the call follows the protocol: it is made on the innermost unclosed Writer
Follows(w) == proto /\ w = Innermost

\* write_multipart(fileobj, subtype, boundary)
WriteMultipart(subtype, boundary) ==
  /\ phase = "init"
  /\ phase' = "write"
  /\ sink' = sink \o InitText(0, subtype, boundary)
  /\ writers' = << NewWriter(boundary, 0) >>
  /\ calls' = Append(calls, [op |-> "new", w |-> 1, ref |-> 0, at |-> Len(sink),
                             hdrs |-> EmptyDict, subtype |-> subtype,
                             mimetype |-> "", content |-> ""])
  /\ UNCHANGED << vvars, dicts, proto, rvars >>

\* writers[w].open(headers, subtype, boundary)
Open(w, ref, subtype, boundary) ==
  /\ phase = "write"
  /\ sink' = sink \o "--" \o writers[w].boundary \o EOL
                  \o InitText(ref, subtype, boundary)
  /\ dicts' = DictsAfter(ref, InitHeaders(ref, subtype, boundary))
  /\ writers' = Append(writers, NewWriter(boundary, w))
  /\ calls' = Append(calls, [op |-> "open", w |-> w, ref |-> ref, at |-> Len(sink),
                             hdrs |-> HeadersArg(ref), subtype |-> subtype,
                             mimetype |-> "", content |-> ""])
  /\ proto' = Follows(w)
  /\ UNCHANGED << vvars, phase, rvars >>

\* writers[w].add(mimetype, content, headers)
Add(w, mimetype, content, ref) ==
  /\ phase = "write"
  /\ sink' = sink \o AddText(writers[w].boundary, ref, mimetype, content)
  /\ dicts' = DictsAfter(ref, AddHeaders(ref, mimetype, content))
  /\ calls' = Append(calls, [op |-> "add", w |-> w, ref |-> ref, at |-> Len(sink),
                             hdrs |-> HeadersArg(ref), subtype |-> "",
                             mimetype |-> mimetype, content |-> content])
  /\ proto' = Follows(w)
  /\ UNCHANGED << vvars, phase, writers, rvars >>

\* writers[w].close()
Close(w) ==
  /\ phase = "write"
  /\ sink' = sink \o CloseText(writers[w].boundary)
  /\ writers' = [writers EXCEPT ![w].closes = @ + 1]
  /\ calls' = Append(calls, [op |-> "close", w |-> w, ref |-> 0, at |-> Len(sink),
                             hdrs |-> EmptyDict, subtype |-> "",
                             mimetype |-> "", content |-> ""])
  /\ proto' = Follows(w)
  /\ UNCHANGED << vvars, phase, dicts, rvars >>

(***************************************************************************)
(* read_multipart: a generator.  A frame holds the locals of one call and  *)
(* the place it is suspended at:                                           *)
(*   "new"    created, not started                                         *)
(*   "run"    in the for loop, about to take the next line                 *)
(*   "y66"    suspended at the yield of a multipart part (line 66)         *)
(*   "y79"    suspended at the yield of a leaf part (line 79)              *)
(*   "deleg"  outer mode, about to take the next part of sub_parts         *)
(*   "y71"    outer mode, suspended at the yield that forwards a part      *)
(*   "y94"    suspended at the yield after the loop (line 94)              *)
(*   "done"   exhausted;  "err": ended by an exception                     *)
(***************************************************************************)
NewGen(boundary, creator) ==
  [boundary |-> boundary, headers |-> EmptyDict, buf |-> << >>,
   outer |-> (boundary = None), in_headers |-> (boundary = None),
   pc |-> "new", sub |-> 0, creator |-> creator, yielded |-> << >>]

\* boundary and '--' + boundary + EOL or None
next_boundary(boundary) ==
  IF boundary = None \/ boundary = "" THEN None ELSE "--" \o boundary \o EOL

\* a faulty last_boundary: the terminal boundary line is never recognised
last_boundary_Never(boundary) == None

\* boundary and '--' + boundary + '--' + EOL or None
last_boundary(boundary) ==
  IF boundary = None \/ boundary = "" THEN None
  ELSE "--" \o boundary \o "--" \o EOL

\* the payload _current_part computes from buf
PartPayload(buf) ==
  LET payload == Join(buf) IN
  IF EndsWith(payload, EOL) THEN SubSeq(payload, 1, Len(payload) - 1)
  ELSE payload

\* a yielded (headers, is_multipart, payload) tuple.  headers is the frame's
\* own dict object: owner names the frame, headers its content at the yield.
\* sub: the generator that is the payload of a multipart part.
Triple(g, headers, is_multipart, payload, sub) ==
  [headers |-> headers, owner |-> g, is_multipart |-> is_multipart,
   payload |-> payload, sub |-> sub]

\* _current_part()
current_part(g, f) == Triple(g, f.headers, FALSE, PartPayload(f.buf), 0)

\* headers.clear(); del buf[:]
Cleared(f) == [f EXCEPT !.headers = EmptyDict, !.buf = << >>]

\* the statements a suspended generator runs when next() resumes it, up to
\* the next line of the for loop
Resume(f) ==
  CASE f.pc = "new" -> [f EXCEPT !.pc = "run"]
    [] f.pc = "y66" -> [Cleared(f) EXCEPT !.pc = "run"]
    [] f.pc = "y79" -> [Cleared(f) EXCEPT !.pc = "run", !.in_headers = TRUE]
    [] f.pc = "y71" -> [f EXCEPT !.pc = "deleg"]
    [] f.pc = "y94" -> [f EXCEPT !.pc = "done"]
    [] OTHER -> f

\* a faulty header store: the first line of a name gives its value, and
\* the name is kept as written
HeaderStored_FirstKept(headers, line) ==
  LET i == IndexFrom(line, ":", 1)
      name == Strip(SubSeq(line, 1, i - 1))
  IN IF name \in DOMAIN headers THEN headers
     ELSE DictSet(headers, name, Strip(SubSeq(line, i + 1, Len(line))))

\* the header line "name: value" stored by lines 57-58
HeaderStored(headers, line) ==
  LET i == IndexFrom(line, ":", 1) IN
  DictSet(headers, Strip(Lower(SubSeq(line, 1, i - 1))),
          Strip(SubSeq(line, i + 1, Len(line))))

\* One pass of the body of the for loop (lines 55-91) over line, in frame f:
\* what happens (ev) and the frame after it.
\*   "cont"   the loop goes on            "yield"  a part is yielded (t)
\*   "break"  the loop is left            "raise"  an exception (exc)
\*   "spawn"  a nested reader is created for boundary spawn, and yielded
\*            (inner mode) or iterated (outer mode)
LoopBody(g, f, line, newid) ==
  LET none == [ev |-> "cont", frame |-> f, t |-> << >>, spawn |-> None,
               exc |-> ""]
  IN
  IF f.in_headers THEN
    IF line # EOL THEN
      IF IndexFrom(line, ":", 1) = 0
      THEN [none EXCEPT !.ev = "raise", !.exc = "ValueError"]
      ELSE [none EXCEPT !.frame.headers = HeaderStored(f.headers, line)]
    ELSE
      LET ct == DictGet(f.headers, "content-type")
          f1 == [f EXCEPT !.in_headers = FALSE]
      IN
      IF ct = None
      THEN [none EXCEPT !.ev = "raise", !.exc = "TypeError", !.frame = f1]
      ELSE
        LET ph == ParseHeader(ct) IN
        IF StartsWith(ph.key, "multipart/") THEN
          IF "boundary" \notin DOMAIN ph.pdict
          THEN [none EXCEPT !.ev = "raise", !.exc = "KeyError", !.frame = f1]
          ELSE [none EXCEPT !.ev = "spawn", !.spawn = ph.pdict["boundary"],
                            !.frame = [f1 EXCEPT !.sub = newid],
                            !.t = Triple(g, f.headers, TRUE, "", newid)]
        ELSE [none EXCEPT !.frame = f1]
  ELSE IF line = next_boundary(f.boundary) THEN
    IF DOMAIN f.headers # {} THEN
      IF ~f.outer
      THEN [none EXCEPT !.ev = "yield", !.t = current_part(g, f)]
      ELSE [none EXCEPT !.frame = [Cleared(f) EXCEPT !.outer = FALSE,
                                                     !.in_headers = TRUE]]
    ELSE [none EXCEPT !.frame.in_headers = TRUE]
  ELSE IF line = last_boundary(f.boundary) THEN [none EXCEPT !.ev = "break"]
  ELSE [none EXCEPT !.frame.buf = Append(f.buf, line)]

\* the generator whose next() the running one was called from (0: consumer)
Top == stack[Len(stack)]
Caller == IF Len(stack) = 2 THEN stack[1] ELSE 0

\* a faulty outer mode: the part of sub_parts is not forwarded
Yielded_NotForwarded(gs, g, pc, t) ==
  [gs EXCEPT ![g].pc = pc, ![g].yielded = Append(@, t)]

\* generator g yields t and is suspended at pc; a caller in outer mode
\* forwards t with its own yield (lines 70-71)
Yielded(gs, g, pc, t) ==
  LET gs1 == [gs EXCEPT ![g].pc = pc, ![g].yielded = Append(@, t)] IN
  IF Caller = 0 THEN gs1
  ELSE [gs1 EXCEPT ![Caller].pc = "y71", ![Caller].yielded = Append(@, t)]

\* generator g ends; the for loop of a caller in outer mode ends with it,
\* and the caller returns (line 72)
Ended(gs, g) ==
  LET gs1 == [gs EXCEPT ![g].pc = "done"] IN
  IF Caller = 0 THEN gs1 ELSE [gs1 EXCEPT ![Caller].pc = "done"]

\* a faulty raise: the generator ends as if the input had ended
Raised_Ends(gs, g) ==
  IF Caller = 0 THEN [gs EXCEPT ![g].pc = "done"]
  ELSE [gs EXCEPT ![g].pc = "done", ![Caller].pc = "done"]

\* generator g raises; the exception passes through a caller in outer mode
Raised(gs, g) ==
  LET gs1 == [gs EXCEPT ![g].pc = "err"] IN
  IF Caller = 0 THEN gs1 ELSE [gs1 EXCEPT ![Caller].pc = "err"]

\* a faulty end of the loop: an input without terminal boundary line is
\* rejected
AfterLoop_Raises(gs, g) == Raised(gs, g)

\* a faulty end of the loop: the pending part is dropped
AfterLoop_Ends(gs, g) == [gs EXCEPT ![g].pc = "done"]

\* lines 93-94, after the loop: the pending part is yielded, or g ends
AfterLoop(gs, g) ==
  IF ~gs[g].outer /\ DOMAIN gs[g].headers # {}
  THEN Yielded(gs, g, "y94", current_part(g, gs[g]))
  ELSE Ended(gs, g)

\* the running generator takes the next line of fileobj and runs the body
\* of the for loop over it; at the end of the input the loop is left
ReadLine ==
  /\ phase = "read" /\ stack # << >> /\ gens[Top].pc = "run"
  /\ IF pos = Len(lines)
     THEN /\ gens' = AfterLoop(gens, Top)
          /\ stack' = << >>
          /\ UNCHANGED << pos, error >>
     ELSE LET o == LoopBody(Top, gens[Top], lines[pos + 1], Len(gens) + 1)
              gs == [gens EXCEPT ![Top] = o.frame]
          IN
          /\ pos' = pos + 1
          /\ CASE o.ev = "cont" ->
                    gens' = gs /\ UNCHANGED << stack, error >>
               [] o.ev = "yield" ->
                    /\ gens' = Yielded(gs, Top, "y79", o.t)
                    /\ stack' = << >>
                    /\ UNCHANGED error
               [] o.ev = "break" ->
                    /\ gens' = AfterLoop(gs, Top)
                    /\ stack' = << >>
                    /\ UNCHANGED error
               [] o.ev = "raise" ->
                    /\ gens' = Raised(gs, Top)
                    /\ stack' = << >>
                    /\ error' = o.exc
               [] o.ev = "spawn" ->
                    LET gs2 == Append(gs, NewGen(o.spawn, Top)) IN
                    IF gens[Top].boundary # None
                    THEN /\ gens' = Yielded(gs2, Top, "y66", o.t)
                         /\ stack' = << >>
                         /\ UNCHANGED error
                    ELSE /\ gens' = [gs2 EXCEPT ![Top].pc = "deleg"]
                         /\ UNCHANGED << stack, error >>
  /\ UNCHANGED << vvars, phase, wvars, lines, drained >>

\* outer mode, line 70: next() on sub_parts.  It is resumed and runs; when
\* it is exhausted the for loop ends and the outer generator returns.
Delegate ==
  /\ phase = "read" /\ stack # << >> /\ gens[Top].pc = "deleg"
  /\ LET sub == gens[Top].sub
         r == Resume(gens[sub])
     IN IF r.pc = "done"
        THEN /\ gens' = [gens EXCEPT ![sub] = r, ![Top].pc = "done"]
             /\ stack' = << >>
        ELSE /\ gens' = [gens EXCEPT ![sub] = r]
             /\ stack' = Append(stack, sub)
  /\ UNCHANGED << vvars, phase, wvars, lines, pos, error, drained >>

(***************************************************************************)
(* The consumer of the parts.                                              *)
(***************************************************************************)
Gens == 1..Len(gens)

\* the generators the consumer holds: the one it called read_multipart for
\* and the payloads of the multipart parts it was handed
Held(g) == IF g = 1 THEN TRUE ELSE gens[gens[g].creator].boundary # None

Exhausted(g) == gens[g].pc \in {"done", "err"}

\* the nested generators handed out by g that are not drained
Undrained(g) ==
  { h \in Gens : /\ Held(h) /\ h # 1 /\ ~Exhausted(h)
                 /\ gens[h].creator \in {g, gens[g].sub} }

\* read_multipart(fileobj, boundary): creates the generator, runs nothing
StartRead(boundary) ==
  /\ phase = "write"
  /\ phase' = "read"
  /\ lines' = SplitLines(sink)
  /\ pos' = 0
  /\ gens' = << NewGen(boundary, 0) >>
  /\ UNCHANGED << vvars, wvars, stack, error, drained >>

\* the consumer calls next() on a generator it holds, also after it has
\* caught the exception an earlier next() raised
Pull(g) ==
  /\ phase = "read" /\ stack = << >>
  /\ Held(g) /\ ~Exhausted(g)
  /\ LET r == Resume(gens[g]) IN
       /\ gens' = [gens EXCEPT ![g] = r]
       /\ stack' = IF r.pc = "done" THEN << >> ELSE << g >>
  /\ drained' = (drained /\ Undrained(g) = {})
  /\ error' = ""
  /\ UNCHANGED << vvars, phase, wvars, lines, pos >>

(***************************************************************************)
(* The caller of the Writer.                                               *)
(***************************************************************************)
NumCalls(op) == Cardinality({ i \in 1..Len(calls) : calls[i].op = op })

\* the caller follows the protocol: every envelope is closed once, innermost
\* first, and a parent is not used while a Writer it opened is unclosed
NumOps == NumCalls("add") + NumCalls("open")

ProtocolOpen ==
  /\ Innermost # 0 /\ NumOps < MaxCalls
  /\ \E a \in OpenArgs :
       Open(Innermost, a.headers, a.subtype, Boundary(Len(writers) + 1))

ProtocolAdd ==
  /\ Innermost # 0 /\ NumOps < MaxCalls
  /\ \E p \in Parts : Add(Innermost, p.mimetype, p.content, p.headers)

ProtocolClose == Innermost # 0 /\ Close(Innermost)

Start == \E st \in Subtypes : WriteMultipart(st, Boundary(1))

\* the envelope is written and closed, then read from its start
ReadSink == Innermost = 0 /\ NumOps <= MaxRead /\ StartRead(None)

Consume == \E g \in Gens : Pull(g)

Next ==
  \/ Start
  \/ ProtocolOpen
  \/ ProtocolAdd
  \/ ProtocolClose
  \/ ReadSink
  \/ Consume
  \/ ReadLine
  \/ Delegate

Spec == Init /\ [][Next]_vars

\* the caller makes its calls in any order, on any Writer it holds
AnyOpen ==
  \E w \in Writers, a \in OpenArgs :
     Open(w, a.headers, a.subtype, Boundary(Len(writers) + 1))

AnyAdd == \E w \in Writers, p \in Parts : Add(w, p.mimetype, p.content, p.headers)

AnyClose == \E w \in Writers : Close(w)

NextAny ==
  \/ Start
  \/ Len(calls) <= MaxAnyCalls /\ AnyOpen
  \/ Len(calls) <= MaxAnyCalls /\ AnyAdd
  \/ Len(calls) <= MaxAnyCalls /\ AnyClose

SpecAny == Init /\ [][NextAny]_vars

(***************************************************************************)
(* The reader over a line source of its own: the caller of read_multipart  *)
(* passes the boundary (inner mode), or the source starts with the header  *)
(* block of the envelope (outer mode).                                     *)
(***************************************************************************)
\* the boundary of the envelope the line sources hold
InBoundary == "B1"

\* the header block of the envelope, for outer mode: a header of its own
\* and the Content-Type that names the boundary
EnvelopeHead ==
  "MIME-Version: 1.0\r\nContent-Type: multipart/mixed; boundary=\"B1\"\r\n\r\n"

\* what the line sources are made of: the opening boundary line, header
\* block and blank line of a part; a line of text; an empty line; a line
\* with a colon; the terminal boundary line
Chunks ==
  { "--B1\r\nContent-Type: text/plain\r\n\r\n",
    "--B1\r\nContent-ID: 7\r\nContent-Type: text/x\r\n\r\n",
    "body\r\n",
    "\r\n",
    "--B1--\r\n" }

RECURSIVE Inputs(_)
\* the texts made of at most n chunks
Inputs(n) ==
  IF n = 0 THEN { "" }
  ELSE LET S == Inputs(n - 1) IN S \cup { t \o c : t \in S, c \in Chunks }

InitRead ==
  /\ phase = "read"
  /\ sink = ""
  /\ writers = << >>
  /\ dicts = << CallerDict >>
  /\ calls = << >>
  /\ proto = TRUE
  /\ \E text \in Inputs(MaxChunks) :
       \/ lines = SplitLines(text) /\ gens = << NewGen(InBoundary, 0) >>
       \/ lines = SplitLines(EnvelopeHead \o text) /\ gens = << NewGen(None, 0) >>
  /\ pos = 0
  /\ stack = << >>
  /\ error = ""
  /\ drained = TRUE
  /\ NoView

NextRead ==
  \/ Consume
  \/ ReadLine
  \/ Delegate

SpecRead == InitRead /\ [][NextRead]_vars

(***************************************************************************)
(* The reader over documents of given shapes: nested envelopes with lines  *)
(* before the first and after the last boundary line, and malformed header *)
(* blocks.  boundary is the argument of read_multipart (None: outer mode). *)
(***************************************************************************)
\* pieces of the documents
TextPart == "--B1\r\nContent-Type: text/plain\r\n\r\n"
NestedPart == "--B1\r\nContent-Type: multipart/mixed; boundary=\"B2\"\r\n\r\n"
InnerPart == "--B2\r\nContent-Type: text/x\r\n\r\nin\r\n"

\* an envelope with a nested envelope as its first part: with or without a
\* preamble, a second inner part, a sibling part, lines after the end
NestedDocs ==
  { pre \o NestedPart \o InnerPart \o more \o "--B2--\r\n" \o sib
      \o "--B1--\r\n" \o tail :
      pre \in {"", "pre\r\n"}, more \in {"", InnerPart},
      sib \in {"", TextPart \o "sib\r\n"}, tail \in {"", "after\r\n--B1\r\n"} }

\* header blocks that are malformed or hold a name more than once
OddDocs ==
  { "--B1\r\nContent-Type text/plain\r\n\r\nbody\r\n--B1--\r\n",
    TextPart \o "one\r\n--B1\r\nContent-Type: text/x\r\nno colon\r\n\r\ntwo\r\n"
      \o TextPart \o "three\r\n--B1--\r\n",
    TextPart \o "one\r\n--B1\r\nContent-Type: multipart/mixed\r\n\r\n"
      \o InnerPart \o "--B2--\r\n" \o TextPart \o "three\r\n--B1--\r\n",
    "--B1\r\nContent-Type: text/plain\r\nX-Tag:  one \r\nx-tag: two\r\n"
      \o "CONTENT-TYPE : text/x\r\nX-Time:10:30\r\n\r\nbody\r\n--B1--\r\n",
    NestedPart \o "--B2\r\nno colon\r\n\r\nin\r\n--B2--\r\n"
      \o TextPart \o "sib\r\n--B1--\r\n",
    TextPart \o "one\r\n--B1\r\nContent-ID: 7\r\n\r\ntwo\r\n--B1--\r\n",
    "--B1\r\n\r\nbody\r\n--B1--\r\n" }

\* envelope header blocks for outer mode that are malformed
OddHeads ==
  { "MIME-Version 1.0\r\nContent-Type: multipart/mixed; boundary=\"B1\"\r\n\r\n",
    "Content-Type: multipart/mixed\r\n\r\n" }

Documents ==
  { [text |-> t, boundary |-> InBoundary] : t \in NestedDocs \cup OddDocs }
    \cup { [text |-> EnvelopeHead \o t, boundary |-> None] :
             t \in NestedDocs \cup OddDocs }
    \cup { [text |-> h \o TextPart \o "body\r\n--B1--\r\n", boundary |-> None] :
             h \in OddHeads }

InitDocs ==
  /\ phase = "read"
  /\ sink = ""
  /\ writers = << >>
  /\ dicts = << CallerDict >>
  /\ calls = << >>
  /\ proto = TRUE
  /\ \E d \in Documents :
       lines = SplitLines(d.text) /\ gens = << NewGen(d.boundary, 0) >>
  /\ pos = 0
  /\ stack = << >>
  /\ error = ""
  /\ drained = TRUE
  /\ NoView

SpecDocs == InitDocs /\ [][NextRead]_vars

(***************************************************************************)
(* The header block serializer on its own: the caller builds a header set  *)
(* entry by entry, in any order, and has a Writer serialize it.            *)
(***************************************************************************)
\* the names of the entries: one a prefix of another, upper and lower case
HeaderNames == {"Content", "Content-ID", "ETag", "a"}

\* the state after w = write_multipart(fileobj, boundary='B1'), the header
\* set of the caller empty
InitHeaderSets ==
  /\ phase = "headers"
  /\ sink = InitText(0, "mixed", "B1")
  /\ writers = << NewWriter("B1", 0) >>
  /\ dicts = << EmptyDict >>
  /\ calls = << [op |-> "new", w |-> 1, ref |-> 0, at |-> 0,
                 hdrs |-> EmptyDict, subtype |-> "mixed",
                 mimetype |-> "", content |-> ""] >>
  /\ proto = TRUE
  /\ lines = << >>
  /\ pos = 0
  /\ gens = << >>
  /\ stack = << >>
  /\ error = ""
  /\ drained = TRUE
  /\ NoView

\* headers[name] = value, by the caller
SetHeader(name, value) ==
  /\ phase = "headers"
  /\ Cardinality(DOMAIN dicts[1] \cup {name}) <= MaxNames
  /\ dicts' = [dicts EXCEPT ![1] = DictSet(@, name, value)]
  /\ UNCHANGED << vvars, phase, sink, writers, calls, proto, rvars >>

\* writers[1]._write_headers(headers)
WriteHeaders ==
  /\ phase = "headers"
  /\ NumCalls("headers") < MaxWrites
  /\ sink' = sink \o WriteHeadersText(dicts[1])
  /\ calls' = Append(calls, [op |-> "headers", w |-> 1, ref |-> 1,
                             at |-> Len(sink), hdrs |-> dicts[1],
                             subtype |-> "", mimetype |-> "", content |-> ""])
  /\ UNCHANGED << vvars, phase, writers, dicts, proto, rvars >>

NextHeaders ==
  \/ \E name \in HeaderNames : SetHeader(name, "1")
  \/ WriteHeaders

SpecHeaders == InitHeaderSets /\ [][NextHeaders]_vars

(***************************************************************************)
(* A Writer used in a with-block, on a sink whose write may raise: every   *)
(* fileobj.write either appends its argument or raises and appends         *)
(* nothing, as the environment chooses.  A call in which the write after   *)
(* the k-th raises has made its first k writes; the exception leaves the   *)
(* body, __exit__ runs, and the scope is left.                             *)
(*   phase "write": in the body;  "exit": the body is left, __exit__ is    *)
(*   about to run;  "left": the with statement is over, error is the       *)
(*   exception that propagates to the caller ("": none)                    *)
(***************************************************************************)
RECURSIVE HeaderWrites(_, _)
\* the arguments of the writes of the loop of _write_headers
HeaderWrites(headers, names) ==
  IF names = << >> THEN << >>
  ELSE << Head(names), ": ", headers[Head(names)], EOL >>
         \o HeaderWrites(headers, Tail(names))

\* the arguments of the writes of _write_headers(headers)
WriteHeadersWrites(headers) ==
  HeaderWrites(headers, SortedSeq(DOMAIN headers)) \o << EOL >>

\* the arguments of the writes of open, those of __init__ included
OpenWrites(boundary, ref, subtype, sub_boundary) ==
  << "--", boundary, EOL >>
    \o WriteHeadersWrites(InitHeaders(ref, subtype, sub_boundary))

\* the arguments of the writes of add
AddWrites(boundary, ref, mimetype, content) ==
  << "--", boundary, EOL >>
    \o WriteHeadersWrites(AddHeaders(ref, mimetype, content))
    \o (IF content # "" THEN << content, EOL >> ELSE << >>)

\* the arguments of the writes of close
CloseWrites(boundary) == << "--", boundary, "--", EOL >>

\* a faulty sink: the writes of a call that raises are taken back
Written_RolledBack(ws, k) == IF k < Len(ws) THEN "" ELSE Join(ws)

\* what the sink holds of the writes ws once the first k are made
Written(ws, k) == Join(SubSeq(ws, 1, k))

\* the exception the write of the sink raises in the i-th call
SinkError(i) == "IOError#" \o StrOfNat(i)

\* the record of a call the (k+1)-th write of which raised
Failed(op, w, ref, hdrs, subtype, mimetype, content, k) ==
  [op |-> op, w |-> w, ref |-> ref, at |-> Len(sink), hdrs |-> hdrs,
   subtype |-> subtype, mimetype |-> mimetype, content |-> content,
   accepted |-> k]

\* the state after: with write_multipart(fileobj, boundary='B1') as w:
InitWith ==
  /\ phase = "write"
  /\ sink = InitText(0, "mixed", Boundary(1))
  /\ writers = << NewWriter(Boundary(1), 0) >>
  /\ dicts = << CallerDict >>
  /\ calls = << [op |-> "new", w |-> 1, ref |-> 0, at |-> 0,
                 hdrs |-> EmptyDict, subtype |-> "mixed",
                 mimetype |-> "", content |-> ""] >>
  /\ proto = TRUE
  /\ lines = << >>
  /\ pos = 0
  /\ gens = << >>
  /\ stack = << >>
  /\ error = ""
  /\ drained = TRUE
  /\ NoView

\* writers[w].open(headers, subtype, boundary), the write after the k-th
\* raises: __init__ has set Content-Type once the boundary line is written
FailingOpen(w, ref, subtype, boundary, k) ==
  /\ phase = "write"
  /\ k < Len(OpenWrites(writers[w].boundary, ref, subtype, boundary))
  /\ sink' = sink \o Written(OpenWrites(writers[w].boundary, ref, subtype,
                                        boundary), k)
  /\ dicts' = IF k >= 3
              THEN DictsAfter(ref, InitHeaders(ref, subtype, boundary))
              ELSE dicts
  /\ calls' = Append(calls, Failed("open", w, ref, HeadersArg(ref), subtype,
                                   "", "", k))
  /\ proto' = Follows(w)
  /\ error' = SinkError(Len(calls) + 1)
  /\ phase' = "exit"
  /\ UNCHANGED << vvars, writers, lines, pos, gens, stack, drained >>

\* writers[w].add(mimetype, content, headers), the write after the k-th
\* raises: the headers are set once the boundary line is written
FailingAdd(w, mimetype, content, ref, k) ==
  /\ phase = "write"
  /\ k < Len(AddWrites(writers[w].boundary, ref, mimetype, content))
  /\ sink' = sink \o Written(AddWrites(writers[w].boundary, ref, mimetype,
                                       content), k)
  /\ dicts' = IF k >= 3
              THEN DictsAfter(ref, AddHeaders(ref, mimetype, content))
              ELSE dicts
  /\ calls' = Append(calls, Failed("add", w, ref, HeadersArg(ref), "",
                                   mimetype, content, k))
  /\ proto' = Follows(w)
  /\ error' = SinkError(Len(calls) + 1)
  /\ phase' = "exit"
  /\ UNCHANGED << vvars, writers, lines, pos, gens, stack, drained >>

\* writers[w].close(), the write after the k-th raises
FailingClose(w, k) ==
  /\ phase = "write"
  /\ k < Len(CloseWrites(writers[w].boundary))
  /\ sink' = sink \o Written(CloseWrites(writers[w].boundary), k)
  /\ calls' = Append(calls, Failed("close", w, 0, EmptyDict, "", "", "", k))
  /\ proto' = Follows(w)
  /\ error' = SinkError(Len(calls) + 1)
  /\ phase' = "exit"
  /\ UNCHANGED << vvars, writers, dicts, lines, pos, gens, stack, drained >>

\* the body of the with-block completes
EndBody ==
  /\ phase = "write"
  /\ phase' = "exit"
  /\ UNCHANGED << vvars, wvars, rvars >>

\* a faulty __exit__: close is not called
ExitWrites_None(boundary) == << >>

\* the writes of __exit__: those of self.close()
ExitWrites(boundary) == CloseWrites(boundary)

\* __exit__(exc_type, exc_val, exc_tb) of the Writer of the with statement,
\* its first k writes made: it returns None, so that the exception of the
\* body propagates, unless close raises
LeaveScope(k) ==
  /\ phase = "exit"
  /\ k <= Len(ExitWrites(writers[1].boundary))
  /\ sink' = sink \o Written(ExitWrites(writers[1].boundary), k)
  /\ calls' = Append(calls, Failed("close", 1, 0, EmptyDict, "", "", "", k))
  /\ writers' = IF k = Len(ExitWrites(writers[1].boundary))
                THEN [writers EXCEPT ![1].closes = @ + 1]
                ELSE writers
  /\ error' = IF k < Len(ExitWrites(writers[1].boundary))
              THEN SinkError(Len(calls) + 1)
              ELSE error
  /\ phase' = "left"
  /\ UNCHANGED << vvars, dicts, proto, lines, pos, gens, stack, drained >>

\* the calls of the body the sink fails in, at any of their writes
FailOpen ==
  \E w \in Writers, a \in OpenArgs :
    \E k \in 0..(Len(OpenWrites(writers[w].boundary, a.headers, a.subtype,
                                Boundary(Len(writers) + 1))) - 1) :
       FailingOpen(w, a.headers, a.subtype, Boundary(Len(writers) + 1), k)

FailAdd ==
  \E w \in Writers, p \in Parts :
    \E k \in 0..(Len(AddWrites(writers[w].boundary, p.headers, p.mimetype,
                               p.content)) - 1) :
       FailingAdd(w, p.mimetype, p.content, p.headers, k)

FailClose ==
  \E w \in Writers :
    \E k \in 0..(Len(CloseWrites(writers[w].boundary)) - 1) :
       FailingClose(w, k)

Leave ==
  \E k \in 0..Len(ExitWrites(writers[1].boundary)) : LeaveScope(k)

NextWith ==
  \/ Len(calls) <= MaxBody /\ AnyOpen
  \/ Len(calls) <= MaxBody /\ AnyAdd
  \/ Len(calls) <= MaxBody /\ AnyClose
  \/ Len(calls) <= MaxBody /\ FailOpen
  \/ Len(calls) <= MaxBody /\ FailAdd
  \/ Len(calls) <= MaxBody /\ FailClose
  \/ EndBody
  \/ Leave

SpecWith == InitWith /\ [][NextWith]_vars

(***************************************************************************)
(* view.py: the view server loop run(input, output).                       *)
(* JSON values are records: t is the kind ("true", "null", "str", "list",  *)
(* "obj"), s the text of a string, items the elements of a list or the     *)
(* << name, value >> pairs of an object in the order the dict gives them.  *)
(***************************************************************************)
JTrue == [t |-> "true", s |-> "", items |-> << >>]
JNull == [t |-> "null", s |-> "", items |-> << >>]
JStr(s) == [t |-> "str", s |-> s, items |-> << >>]
JList(items) == [t |-> "list", s |-> "", items |-> items]
JObj(items) == [t |-> "obj", s |-> "", items |-> items]

\* a character of a string as json.dumps writes it
EscapedChar(c) ==
  IF c = "\"" THEN "\\\""
  ELSE IF c = "\\" THEN "\\\\"
  ELSE IF c = "\n" THEN "\\n"
  ELSE c

\* a string as json.dumps writes it
Quoted(s) == "\"" \o Join([i \in 1..Len(s) |-> EscapedChar(Char(s, i))]) \o "\""

RECURSIVE Dumps(_), DumpList(_), DumpPairs(_)
\* json.dumps(v), with the separators ', ' and ': ' of the default encoder
Dumps(v) ==
  CASE v.t = "true" -> "true"
    [] v.t = "null" -> "null"
    [] v.t = "str" -> Quoted(v.s)
    [] v.t = "list" -> "[" \o DumpList(v.items) \o "]"
    [] v.t = "obj" -> "{" \o DumpPairs(v.items) \o "}"

DumpList(items) ==
  IF items = << >> THEN ""
  ELSE Dumps(Head(items))
         \o (IF Len(items) > 1 THEN ", " ELSE "") \o DumpList(Tail(items))

DumpPairs(items) ==
  IF items = << >> THEN ""
  ELSE Quoted(Head(items)[1]) \o ": " \o Dumps(Head(items)[2])
         \o (IF Len(items) > 1 THEN ", " ELSE "") \o DumpPairs(Tail(items))

\* the sources of add_fun commands, and what exec makes of each: whether it
\* raised and the args of the exception, the number of names the source
\* defined, and whether the value of a single name is a function
Sources ==
  { "def fun(doc): yield None, doc",
    "def fun(doc): raise ValueError(\"boom\")",
    "def fun(doc): raise KeyError",
    "def",
    "assert False",
    "x = 1",
    "a = b = 1" }

Exec(string) ==
  CASE string = "def" ->
         [raised |-> TRUE, args |-> << "invalid syntax" >>, names |-> 0,
          isfun |-> FALSE]
    [] string = "assert False" ->
         [raised |-> TRUE, args |-> << >>, names |-> 0, isfun |-> FALSE]
    [] string = "x = 1" ->
         [raised |-> FALSE, args |-> << >>, names |-> 1, isfun |-> FALSE]
    [] string = "a = b = 1" ->
         [raised |-> FALSE, args |-> << >>, names |-> 2, isfun |-> FALSE]
    [] OTHER ->
         [raised |-> FALSE, args |-> << >>, names |-> 1, isfun |-> TRUE]

\* function(doc) of the function a source defined, iterated to its end: the
\* (key, value) pairs it generates, or the exception it raises
Call(function, doc) ==
  CASE function = "def fun(doc): yield None, doc" ->
         [raised |-> FALSE, args |-> << >>, pairs |-> << << JNull, doc >> >>]
    [] function = "def fun(doc): raise ValueError(\"boom\")" ->
         [raised |-> TRUE, args |-> << "boom" >>, pairs |-> << >>]
    [] OTHER ->
         [raised |-> TRUE, args |-> << >>, pairs |-> << >>]

\* the documents of map_doc commands
Docs == { JObj(<< << "foo", JStr("bar") >> >>) }

\* the commands, and the lines that hold them
Commands ==
  { JList(<< JStr("reset") >>) }
    \cup { JList(<< JStr("add_fun"), JStr(src) >>) : src \in Sources }
    \cup { JList(<< JStr("map_doc"), doc >>) : doc \in Docs }

CommandLines == { Dumps(cmd) \o "\n" : cmd \in Commands }

\* a line that is not JSON
BadLines == { "reset\n" }

\* json.loads(line) of a command line
Loads(line) == CHOOSE cmd \in Commands : Dumps(cmd) \o "\n" = line

\* what a handler does: the value it returns, the list functions after it,
\* what it wrote to output itself, and raised: an exception left it
Handled(ret, funs, log, raised) ==
  [ret |-> ret, functions |-> funs, log |-> log, raised |-> raised]

\* the map_compilation_error object with the reason given
CompilationError(reason) ==
  JObj(<< << "error", JObj(<< << "id", JStr("map_compilation_error") >>,
                            << "reason", JStr(reason) >> >>) >> >>)

\* reset()
reset == Handled(JTrue, << >>, "", FALSE)

\* add_fun(string): e.args[0] of an exception without args raises IndexError
add_fun(string) ==
  LET x == Exec(string) IN
  IF x.raised THEN
    IF x.args = << >> THEN Handled(JNull, functions, "", TRUE)
    ELSE Handled(CompilationError(x.args[1]), functions, "", FALSE)
  ELSE IF x.names # 1 \/ ~x.isfun
  THEN Handled(CompilationError(
         "string must eval to a function (ex: \"def(doc): return 1\")"),
         functions, "", FALSE)
  ELSE Handled(JTrue, Append(functions, string), "", FALSE)

\* the rows [[key, value], ...] of the pairs a function generated
Rows(pairs) == JList([i \in 1..Len(pairs) |-> JList(pairs[i])])

RECURSIVE MapFunctions(_, _, _, _)
\* the loop of map_doc over the functions funs, results and the text
\* written to output so far given
MapFunctions(funs, doc, results, log) ==
  IF funs = << >> THEN Handled(JList(results), functions, log, FALSE)
  ELSE LET r == Call(Head(funs), doc) IN
       IF ~r.raised
       THEN MapFunctions(Tail(funs), doc, Append(results, Rows(r.pairs)), log)
       ELSE IF r.args = << >>
       THEN Handled(JNull, functions, log, TRUE)
       ELSE MapFunctions(Tail(funs), doc, Append(results, JList(<< >>)),
              log \o Dumps(JObj(<< << "log", JStr(r.args[1]) >> >>)))

\* map_doc(doc)
map_doc(doc) == MapFunctions(functions, doc, << >>, "")

\* handlers[cmd[0]](*cmd[1:])
Handle(cmd) ==
  CASE cmd.items[1].s = "reset" -> reset
    [] cmd.items[1].s = "add_fun" -> add_fun(cmd.items[2].s)
    [] cmd.items[1].s = "map_doc" -> map_doc(cmd.items[2])

\* the state when run(input, output) enters its loop
InitView ==
  /\ phase = "view"
  /\ sink = ""
  /\ writers = << >>
  /\ dicts = << CallerDict >>
  /\ calls = << >>
  /\ proto = TRUE
  /\ lines = << >>
  /\ pos = 0
  /\ gens = << >>
  /\ stack = << >>
  /\ error = ""
  /\ drained = TRUE
  /\ NoView

\* one pass of the loop of run over a command line: the handler is called
\* and its return value written, unless an exception leaves run
Command(line) ==
  /\ phase = "view"
  /\ LET cmd == Loads(line)
         h == Handle(cmd)
     IN
       /\ commands' = Append(commands, [line |-> line, cmd |-> cmd])
       /\ functions' = h.functions
       /\ output' = output \o h.log
                      \o (IF h.raised THEN "" ELSE Dumps(h.ret) \o "\n")
       /\ retvals' = IF h.raised THEN retvals ELSE Append(retvals, h.ret)
       /\ error' = IF h.raised THEN "IndexError" ELSE error
       /\ phase' = IF h.raised THEN "raised" ELSE phase
  /\ UNCHANGED << wvars, lines, pos, gens, stack, drained >>

\* a line json.loads rejects: the message goes to stderr, and exit(1)
BadCommand(line) ==
  /\ phase = "view"
  /\ phase' = "exit"
  /\ error' = "SystemExit"
  /\ commands' = Append(commands, [line |-> line, cmd |-> JNull])
  /\ UNCHANGED << wvars, lines, pos, gens, stack, drained, functions,
                  output, retvals >>

\* readline returns '': the loop is left and run returns
EndOfInput ==
  /\ phase = "view"
  /\ phase' = "returned"
  /\ UNCHANGED << wvars, rvars, vvars >>

NextView ==
  \/ Len(commands) < MaxCommands /\ \E line \in CommandLines : Command(line)
  \/ Len(commands) < MaxCommands /\ \E line \in BadLines : BadCommand(line)
  \/ EndOfInput

SpecView == InitView /\ [][NextView]_vars

(***************************************************************************)
(* What the properties below are stated with.                              *)
(***************************************************************************)
\* the calls of one kind, and the calls that write parts of Writer w
CallIds == 1..Len(calls)
AddCalls == { i \in CallIds : calls[i].op = "add" }
OpenCalls == { i \in CallIds : calls[i].op = "open" }

\* the indices in S, ascending
RECURSIVE Ascending(_)
Ascending(S) ==
  IF S = {} THEN << >>
  ELSE LET m == CHOOSE i \in S : \A j \in S : i <= j
       IN << m >> \o Ascending(S \ {m})

\* the add and open calls on Writer w, in call order: the parts of its
\* envelope as written
Items(w) == Ascending({ i \in AddCalls \cup OpenCalls : calls[i].w = w })

\* the Writer that open call i returned: Writers are numbered as constructed
ChildOf(i) == 1 + Cardinality({ j \in OpenCalls : j <= i })

\* the boundary lines of the envelopes written
BoundaryLines ==
  { "--" \o writers[w].boundary \o EOL : w \in Writers }
    \cup { "--" \o writers[w].boundary \o "--" \o EOL : w \in Writers }

\* no content written holds a line equal to a boundary line (the caller's
\* obligation: the format has no escaping)
NoCollision ==
  \A i \in AddCalls :
    \A k \in 1..Len(SplitLines(calls[i].content \o EOL)) :
      SplitLines(calls[i].content \o EOL)[k] \notin BoundaryLines

\* the consumer has drained every sequence, nested ones before it advanced
\* their parent, and no next() raised
AllRead ==
  /\ phase = "read" /\ stack = << >> /\ error = "" /\ drained
  /\ \A g \in Gens : gens[g].pc = "done"

\* headers[name], or None
HeaderOf(t, name) == DictGet(t.headers, name)

RECURSIVE ReadsBack(_, _)
\* the sequence generator g yielded is the envelope of Writer w as written:
\* a leaf triple per add, with its media type and content, and a multipart
\* triple per open, whose nested sequence is the nested envelope as written
ReadsBack(g, w) ==
  LET it == Items(w)
      ys == gens[g].yielded
  IN /\ Len(ys) = Len(it)
     /\ \A k \in 1..Len(it) :
          LET c == calls[it[k]]
              t == ys[k]
          IN IF c.op = "add"
             THEN /\ ~t.is_multipart
                  /\ HeaderOf(t, "content-type") = c.mimetype
                  /\ t.payload = c.content
             ELSE /\ t.is_multipart
                  /\ t.sub \in Gens
                  /\ ReadsBack(t.sub, ChildOf(it[k]))

(***************************************************************************)
(* C1: N >= 0 leaf parts written with add() on one Writer that is then     *)
(* closed, none with a line equal to a boundary line, read back in outer   *)
(* mode: exactly N triples in the order written, each with is_multipart    *)
(* false, content-type equal to the written media type and payload equal   *)
(* to the written content.                                                 *)
(***************************************************************************)
C1_FlatRoundTrip ==
  (AllRead /\ OpenCalls = {} /\ NoCollision) => ReadsBack(1, 1)

(***************************************************************************)
(* C2: an envelope with nested envelopes, written under the protocol and   *)
(* read in outer mode with every nested sequence drained before the parent *)
(* is advanced, reads back as written: a multipart triple per nested       *)
(* envelope whose nested sequence yields the leaf parts written into it,   *)
(* in order and with payload equal to the content, siblings after it.      *)
(***************************************************************************)
C2_NestedRoundTrip ==
  (AllRead /\ OpenCalls # {} /\ NoCollision) => ReadsBack(1, 1)

(***************************************************************************)
(* C3: the payload of a finalized leaf part is the concatenation of the    *)
(* body lines consumed for it with the one trailing CRLF removed in full   *)
(* and every earlier line terminator unchanged.                            *)
(***************************************************************************)
\* text without its final CRLF, when it ends with one
WithoutFinalEOL(text) ==
  IF EndsWith(text, "\r\n") THEN SubSeq(text, 1, Len(text) - 2) ELSE text

\* generator g is suspended at the yield of a leaf part: buf still holds
\* the body lines consumed for the part
AtLeafYield(g) == gens[g].pc \in {"y79", "y94"}

LastYielded(g) == gens[g].yielded[Len(gens[g].yielded)]

C3_PayloadStripsEOL ==
  \A g \in Gens :
    AtLeafYield(g) =>
      LastYielded(g).payload = WithoutFinalEOL(Join(gens[g].buf))

(***************************************************************************)
(* C4: after write_multipart(sink, subtype, boundary), add() calls with    *)
(* non-empty contents and one close(), the sink holds exactly the line     *)
(* Content-Type: multipart/<subtype>; boundary="<boundary>" and a blank    *)
(* line (written at construction), then per add, in call order, the line   *)
(* --<boundary>, the header lines of the part sorted by name, a blank      *)
(* line, the content and one line terminator, and last --<boundary>--.     *)
(***************************************************************************)
\* the header line of one name
HeaderLine(name, value) == name \o ": " \o value \o "\r\n"

\* the names in S arranged so that each is less than the next
InNameOrder(S) ==
  CHOOSE seq \in [1..Cardinality(S) -> S] :
    \A i, j \in 1..Cardinality(S) : i < j => StrLess(seq[i], seq[j])

\* the header lines of mapping h, sorted by name
SortedHeaderLines(h) ==
  LET names == InNameOrder(DOMAIN h) IN
  Join([i \in 1..Len(names) |-> HeaderLine(names[i], h[names[i]])])

\* the headers of the part add call c writes: the caller's, with the media
\* type and the length of the content
PartHeaders(c) ==
  [n \in (DOMAIN c.hdrs) \cup {"Content-Type", "Content-Length"} |->
     IF n = "Content-Type" THEN c.mimetype
     ELSE IF n = "Content-Length" THEN StrOfNat(Len(c.content))
     ELSE c.hdrs[n]]

\* the header block of the envelope of the Writer constructed by call c
\* with the given boundary
EnvelopeHeaders(c, boundary) ==
  [n \in (DOMAIN c.hdrs) \cup {"Content-Type"} |->
     IF n = "Content-Type"
     THEN "multipart/" \o c.subtype \o "; boundary=\"" \o boundary \o "\""
     ELSE c.hdrs[n]]

\* the calls are write_multipart, adds of non-empty contents, one close
FlatClosed ==
  /\ Len(calls) >= 2
  /\ calls[1].op = "new" /\ calls[Len(calls)].op = "close"
  /\ \A i \in 2..(Len(calls) - 1) :
       calls[i].op = "add" /\ calls[i].content # ""

ExpectedFlatSink ==
  LET b == writers[1].boundary IN
  SortedHeaderLines(EnvelopeHeaders(calls[1], b)) \o "\r\n"
    \o Join([k \in 1..(Len(calls) - 2) |->
               "--" \o b \o "\r\n"
                 \o SortedHeaderLines(PartHeaders(calls[k + 1])) \o "\r\n"
                 \o calls[k + 1].content \o "\r\n"])
    \o "--" \o b \o "--\r\n"

C4_FlatSink ==
  /\ Len(calls) = 1 =>
       sink = "Content-Type: multipart/" \o calls[1].subtype
                \o "; boundary=\"" \o writers[1].boundary \o "\"\r\n\r\n"
  /\ FlatClosed => sink = ExpectedFlatSink

\* two parts, one of them with headers of the caller's, and the close
C4_Witness ==
  /\ FlatClosed /\ Len(calls) = 4
  /\ calls[2].ref = 0 /\ calls[3].ref = 1

(***************************************************************************)
(* C5: every add(mimetype, content, headers) call appends to the sink, in  *)
(* this order: the line --<boundary>; a header block of the caller's       *)
(* headers plus Content-Type = mimetype and Content-Length = the length of *)
(* content, one line per name, sorted by name; a blank line; content       *)
(* verbatim; and exactly one trailing line terminator, for every content.  *)
(* The code writes the trailing terminator only after a non-empty content  *)
(* (C5_AddAppends states the claim as made, C5_AddAppendsAmended as        *)
(* amended: nothing follows the blank line when content is empty).         *)
(***************************************************************************)
\* the step is an add call, whose record is the last of calls'
AddStep ==
  /\ Len(calls') = Len(calls) + 1
  /\ calls'[Len(calls')].op = "add"

\* what the call writes up to and including the content
AddedUpToContent(c) ==
  "--" \o writers[c.w].boundary \o "\r\n"
    \o SortedHeaderLines(PartHeaders(c)) \o "\r\n"
    \o c.content

C5_AddAppends ==
  [][AddStep =>
       sink' = sink \o AddedUpToContent(calls'[Len(calls')]) \o "\r\n"]_vars

C5_AddAppendsAmended ==
  [][AddStep =>
       LET c == calls'[Len(calls')] IN
       sink' = sink \o AddedUpToContent(c)
                    \o (IF c.content = "" THEN "" ELSE "\r\n")]_vars

\* an add of a content that holds a boundary line, then an add of the
\* empty content, after which the sink ends with the blank line
C5_Witness ==
  /\ Len(calls) >= 3
  /\ calls[Len(calls)].op = "add" /\ calls[Len(calls)].content = ""
  /\ \E i \in AddCalls : ~NoCollision /\ calls[i].content = "--B1"
  /\ EndsWith(sink, "Content-Length: 0\r\nContent-Type: text/plain\r\n\r\n")

(***************************************************************************)
(* C6: add(mimetype, '') writes a part whose header block holds the line   *)
(* Content-Length: 0 and whose blank line is followed directly by the next *)
(* boundary line of the envelope; read back, the part is a leaf triple     *)
(* with the empty payload.                                                 *)
(***************************************************************************)
EmptyAdds == { i \in AddCalls : calls[i].content = "" }

\* what call i wrote: the sink from where it was when the call was made up
\* to where it was when the next call was made
CallText(i) ==
  SubSeq(sink, calls[i].at + 1,
         IF i < Len(calls) THEN calls[i + 1].at ELSE Len(sink))

\* the triple read for the part call i wrote: the envelope of Writer w is
\* read by the generator created for it, the w-th after the outer one
ReadBackOf(i) ==
  LET it == Items(calls[i].w)
      k == CHOOSE k \in 1..Len(it) : it[k] = i
  IN gens[calls[i].w + 1].yielded[k]

C6_EmptyAdd ==
  \A i \in EmptyAdds :
    LET b == writers[calls[i].w].boundary
        ls == SplitLines(CallText(i))
    IN /\ \E k \in 1..Len(ls) : ls[k] = "Content-Length: 0\r\n"
       /\ ls[Len(ls)] = "\r\n"
       /\ \A k \in 1..(Len(ls) - 1) : ls[k] # "\r\n"
       /\ i < Len(calls) =>
            SplitLines(CallText(i + 1))[1]
              \in { "--" \o b \o "\r\n", "--" \o b \o "--\r\n" }
       /\ (AllRead /\ NoCollision) =>
            /\ gens[calls[i].w + 1].boundary = b
            /\ ~ReadBackOf(i).is_multipart
            /\ ReadBackOf(i).payload = ""
            /\ HeaderOf(ReadBackOf(i), "content-length") = "0"

\* an empty part followed by another part, written, closed and read back
C6_Witness ==
  /\ AllRead /\ NoCollision
  /\ \E i \in EmptyAdds : calls[i + 1].op = "add"

(***************************************************************************)
(* C7: for calls that follow the protocol (every envelope closed once,     *)
(* innermost first, no add/open on a parent while a Writer it opened is    *)
(* unclosed) and contents without boundary lines, the sink is a well       *)
(* nested envelope: open() writes the opening boundary line of the parent  *)
(* and then the header block of the nested envelope (Content-Type with the *)
(* nested boundary, blank line); the terminal boundary line of an envelope *)
(* comes after all of its parts and before the next boundary line of the   *)
(* parent; terminal boundary lines appear innermost first.                 *)
(***************************************************************************)
\* the boundary parameter of a line Content-Type: multipart/...
EnvelopeLine(line) == StartsWith(line, "Content-Type: multipart/")

BoundaryOf(line) ==
  LET at == IndexFrom(line, "=", 1) IN
  IF at = 0 THEN None ELSE SubSeq(line, at + 2, Len(line) - 3)

RECURSIVE Nesting(_, _, _)
\* the lines ls from the k-th on, read with the envelopes st open (outermost
\* first): an envelope begins at its Content-Type line; an opening boundary
\* line must be of the innermost open envelope; so must a terminal one,
\* which ends the envelope.  The envelopes left open, or << None >> when a
\* boundary line is out of place.
Nesting(ls, k, st) ==
  IF k > Len(ls) THEN st
  ELSE LET line == ls[k]
           top == IF st = << >> THEN None ELSE st[Len(st)]
       IN IF EnvelopeLine(line)
          THEN Nesting(ls, k + 1, Append(st, BoundaryOf(line)))
          ELSE IF line \notin BoundaryLines
          THEN Nesting(ls, k + 1, st)
          ELSE IF line = "--" \o top \o "\r\n"
          THEN Nesting(ls, k + 1, st)
          ELSE IF line = "--" \o top \o "--\r\n"
          THEN Nesting(ls, k + 1, SubSeq(st, 1, Len(st) - 1))
          ELSE << None >>

RECURSIVE Chain(_)
\* the boundaries of Writer w and the Writers around it, outermost first
Chain(w) ==
  IF w = 0 THEN << >> ELSE Append(Chain(writers[w].parent), writers[w].boundary)

\* the sink is well nested, and the envelopes it leaves open are those of
\* the unclosed Writers
WellNested == Nesting(SplitLines(sink), 1, << >>) = Chain(Innermost)

C7_ProtocolWellNested ==
  (phase = "write" /\ NoCollision) =>
    /\ WellNested
    /\ \A i \in OpenCalls :
         CallText(i) =
           "--" \o writers[calls[i].w].boundary \o "\r\n"
             \o SortedHeaderLines(
                  EnvelopeHeaders(calls[i], writers[ChildOf(i)].boundary))
             \o "\r\n"

\* a nested envelope with a part, closed, then a part of the parent, closed
C7_Witness ==
  /\ phase = "write" /\ NoCollision /\ Innermost = 0 /\ Len(calls) = 6
  /\ calls[2].op = "open" /\ calls[3].op = "add" /\ calls[4].op = "close"
  /\ calls[5].op = "add"

(***************************************************************************)
(* C8: for every sequence of add/open/close calls on a Writer and on the   *)
(* Writers obtained from it with open(), call-order mistakes included, the *)
(* sink stays structurally valid: boundary lines are well nested and every *)
(* closed envelope has exactly one terminal boundary line, after all of    *)
(* its parts (C8_AlwaysValid, the claim as made).  The Writer keeps no     *)
(* state and checks no call: the sink is valid exactly when the calls      *)
(* followed the protocol (C8_ValidIffProtocol, the claim as amended).      *)
(***************************************************************************)
\* the lines of the sink that are the terminal boundary line of Writer w
TerminalsOf(w) ==
  { k \in 1..Len(SplitLines(sink)) :
      SplitLines(sink)[k] = "--" \o writers[w].boundary \o "--\r\n" }

StructurallyValid ==
  /\ WellNested
  /\ \A w \in Writers : writers[w].closes > 0 => Cardinality(TerminalsOf(w)) = 1

OuterGens == { g \in Gens : gens[g].boundary = None /\ gens[g].sub # 0 }

\* the blank line that ends the header block the line source starts with
HeadEnd == CHOOSE k \in 1..Len(lines) :
             lines[k] = "\r\n" /\ \A m \in 1..(k - 1) : lines[m] # "\r\n"

\* name and value of a header line
NameOf(line) == Strip(Lower(SubSeq(line, 1, IndexFrom(line, ":", 1) - 1)))
ValueOf(line) == Strip(SubSeq(line, IndexFrom(line, ":", 1) + 1, Len(line)))

\* the header mapping of the header lines lines[from..to]
HeaderMap(from, to) ==
  [n \in { NameOf(lines[m]) : m \in from..to } |->
     ValueOf(lines[CHOOSE m \in from..to : NameOf(lines[m]) = n])]

EnvelopeMap == HeaderMap(1, HeadEnd - 1)

C9_OuterForwards ==
  \A g \in OuterGens :
    LET h == gens[g].sub
        envelope == EnvelopeMap
        b == ParseHeader(envelope["content-type"]).pdict["boundary"]
    IN /\ gens[h].boundary = b /\ ~gens[h].outer /\ gens[h].creator = g
       /\ gens[h].pc = "new" => (pos = HeadEnd /\ gens[h] = NewGen(b, g))
       /\ stack = << >> => gens[g].yielded = gens[h].yielded
       /\ \A k \in 1..Len(gens[g].yielded) :
            LET t == gens[g].yielded[k] IN
            /\ t.owner = h /\ t.sub # h
            /\ \A n \in DOMAIN envelope :
                 n \in DOMAIN t.headers => t.headers[n] # envelope[n]

\* an envelope with a header of its own besides Content-Type, and two
\* parts, read to the end
C9_Witness ==
  /\ gens # << >> /\ 1 \in OuterGens /\ gens[1].pc = "done" /\ stack = << >>
  /\ "mime-version" \in DOMAIN EnvelopeMap
  /\ Len(gens[1].yielded) = 2

(***************************************************************************)
(* C10: in inner mode (boundary supplied), for an input of k parts, each   *)
(* an opening boundary line, a header block with a non-multipart           *)
(* Content-Type, a blank line and body lines, followed by the terminal     *)
(* boundary line, read_multipart yields exactly k leaf triples in input    *)
(* order: reading the first opening boundary line yields nothing, each     *)
(* later one yields the part that precedes it, the terminal boundary line  *)
(* yields the last part, and then the sequence ends.                       *)
(***************************************************************************)
OpeningLine == "--" \o InBoundary \o "\r\n"
TerminalLine == "--" \o InBoundary \o "--\r\n"

\* the opening boundary lines of the line source
Opens == { i \in 1..Len(lines) : lines[i] = OpeningLine }

\* the first blank line after line i (0: none)
BlankAfter(i) ==
  LET S == { m \in (i + 1)..Len(lines) : lines[m] = "\r\n" } IN
  IF S = {} THEN 0 ELSE CHOOSE m \in S : \A n \in S : m <= n

\* the line source is k >= 1 parts and the terminal boundary line
PartsShape ==
  /\ Len(lines) >= 2
  /\ lines[1] = OpeningLine
  /\ lines[Len(lines)] = TerminalLine
  /\ \A i \in 1..(Len(lines) - 1) : lines[i] # TerminalLine
  /\ \A i \in Opens :
       /\ BlankAfter(i) # 0
       /\ \A m \in (i + 1)..(BlankAfter(i) - 1) :
            IndexFrom(lines[m], ":", 1) # 0 /\ lines[m] # OpeningLine
       /\ "content-type" \in DOMAIN HeaderMap(i + 1, BlankAfter(i) - 1)
       /\ ~StartsWith(HeaderMap(i + 1, BlankAfter(i) - 1)["content-type"],
                      "multipart/")

\* the j-th part: its opening boundary line, and the boundary line after it
PartStart(j) == Ascending(Opens)[j]
PartEnd(j) ==
  IF j < Cardinality(Opens) THEN PartStart(j + 1) ELSE Len(lines)
PartBody(j) == Join(SubSeq(lines, BlankAfter(PartStart(j)) + 1, PartEnd(j) - 1))

\* generator 1 reads in inner mode
InnerMode == gens # << >> /\ gens[1].boundary = InBoundary

C10_InnerYieldsParts ==
  (InnerMode /\ PartsShape) =>
    LET ys == gens[1].yielded
        k == Cardinality(Opens)
        seen == Cardinality({ i \in Opens : i <= pos })
    IN /\ error = ""
       /\ Len(ys) = IF pos = Len(lines) THEN k
                    ELSE IF seen = 0 THEN 0 ELSE seen - 1
       /\ \A j \in 1..Len(ys) :
            /\ ~ys[j].is_multipart
            /\ ys[j].headers
                 = HeaderMap(PartStart(j) + 1, BlankAfter(PartStart(j)) - 1)
            /\ StartsWith(PartBody(j), ys[j].payload)
            /\ Len(PartBody(j)) - Len(ys[j].payload) <= 2
       /\ gens[1].pc = "y79" => (pos \in Opens /\ seen >= 2)
       /\ gens[1].pc = "y94" => pos = Len(lines)
       /\ gens[1].pc = "done" => pos = Len(lines)
       /\ pos = Len(lines) => gens[1].pc \in {"y94", "done"}

\* two parts with different headers, the first with a body line, the
\* sequence at its end
C10_Witness ==
  /\ InnerMode /\ PartsShape /\ Cardinality(Opens) = 2
  /\ gens[1].pc = "done"
  /\ gens[1].yielded[1].headers # gens[1].yielded[2].headers
  /\ PartBody(1) # ""

(***************************************************************************)
(* C11: on reading the terminal boundary line of its own envelope a reader *)
(* consumes no further line: the cursor is left on the line right after    *)
(* it, lines after the outermost terminal boundary line stay unread, the   *)
(* enclosing reader of a nested envelope resumes with the line right after *)
(* the nested terminal boundary line, and a part still pending is yielded  *)
(* without consuming more input.                                           *)
(***************************************************************************)
\* the terminal boundary line of the envelope generator g reads
TerminalLineOf(g) == "--" \o gens[g].boundary \o "--\r\n"

\* the step in which the running generator reads, in the body of a part,
\* the terminal boundary line of its envelope
TerminalStep ==
  /\ stack # << >> /\ pos < Len(lines) /\ pos' = pos + 1
  /\ gens[Top].pc = "run" /\ ~gens[Top].in_headers
  /\ gens[Top].boundary # None
  /\ lines[pos + 1] = TerminalLineOf(Top)

\* generator g reads no more: it is at its last yield, or exhausted
ReadsNoMore(g) == gens[g].pc \in {"y94", "done"}

\* the reader of the outermost envelope: generator 1, or in outer mode the
\* inner-mode reader it iterates (0: none yet)
OutermostReader ==
  IF gens[1].boundary # None THEN 1 ELSE gens[1].sub

\* the reader of the outermost envelope is past its terminal boundary line,
\* nested sequences were drained in time, and lines are left: the cursor
\* is on the line after that terminal boundary line
TailUnread ==
  (/\ OutermostReader # 0 /\ drained
   /\ gens[OutermostReader].pc \in {"y94", "done"}
   /\ pos < Len(lines))
    => (pos >= 1 /\ lines[pos] = TerminalLineOf(OutermostReader))

C11_TerminalStops ==
  [][/\ TerminalStep =>
          /\ stack' = << >>
          /\ gens'[Top].pc = IF DOMAIN gens[Top].headers # {} THEN "y94"
                             ELSE "done"
          /\ DOMAIN gens[Top].headers # {} =>
               /\ Len(gens'[Top].yielded) = Len(gens[Top].yielded) + 1
               /\ gens'[Top].yielded[Len(gens'[Top].yielded)].headers
                    = gens[Top].headers
               /\ gens'[Top].buf = gens[Top].buf
     /\ \A g \in Gens : ReadsNoMore(g) => gens'[g].pc \in {"y94", "done"}
     /\ pos' # pos =>
          /\ stack # << >> /\ gens[Top].pc = "run" /\ pos' = pos + 1
          /\ \A h \in Gens :
               (/\ h # OutermostReader /\ gens[h].boundary # None
                /\ gens[h].pc = "done" /\ pos >= 1
                /\ lines[pos] = TerminalLineOf(h))
                 => Top = gens[h].creator
     /\ TailUnread']_vars

\* a nested envelope read to its end and then the outer one, in outer mode,
\* with lines left after the outermost terminal boundary line
C11_Witness ==
  /\ gens # << >> /\ gens[1].boundary = None /\ gens[1].pc = "done"
  /\ drained /\ pos < Len(lines)
  /\ \E h \in Gens : gens[h].boundary = "B2" /\ gens[h].pc = "done"
                     /\ Len(gens[h].yielded) = 2

(***************************************************************************)
(* C12: if the consumer pulls the next part from a parent sequence while a *)
(* nested multipart sequence it was handed is not fully drained, the       *)
(* reader raises no error and does not skip the nested envelope: the       *)
(* parent scan consumes the remaining lines of the nested envelope as its  *)
(* own input, so that the parts produced differ from the parts written;    *)
(* when every nested sequence is fully drained before the parent is        *)
(* advanced, the parts produced equal the parts written.                   *)
(***************************************************************************)
\* every sequence has been pulled to its end
AllExhausted ==
  /\ phase = "read" /\ stack = << >>
  /\ \A g \in Gens : Exhausted(g)

C12_UndrainedHazard ==
  (NoCollision /\ OpenCalls # {}) =>
    /\ error = ""
    /\ AllExhausted => (drained <=> ReadsBack(1, 1))

(***************************************************************************)
(* C13: when the line source ends before the terminal boundary line,       *)
(* read_multipart ends its sequence without raising an error: if headers   *)
(* of a part have been gathered it yields that part exactly once, with the *)
(* body lines buffered so far as payload, and then the sequence is         *)
(* exhausted; if no part is pending it yields nothing more.                *)
(***************************************************************************)
\* the running generator asks for a line and the line source is at its end
AtEndOfInput ==
  /\ stack # << >> /\ gens[Top].pc = "run" /\ pos = Len(lines)

\* payload is made of the lines of buf: all of them but for the end of the
\* last line terminator
TakenFrom(payload, buf) ==
  /\ StartsWith(Join(buf), payload)
  /\ Len(Join(buf)) - Len(payload) <= 2

C13_TruncatedInput ==
  [][/\ AtEndOfInput =>
          LET g == Top
              ys == gens[g].yielded
              ys1 == gens'[g].yielded
          IN /\ error' = "" /\ stack' = << >> /\ pos' = pos
             /\ IF DOMAIN gens[g].headers # {} /\ ~gens[g].outer
                THEN /\ gens'[g].pc = "y94"
                     /\ ys1 = Append(ys, ys1[Len(ys1)])
                     /\ ~ys1[Len(ys1)].is_multipart
                     /\ ys1[Len(ys1)].headers = gens[g].headers
                     /\ TakenFrom(ys1[Len(ys1)].payload, gens[g].buf)
                ELSE gens'[g].pc = "done" /\ ys1 = ys
     /\ \A g \in Gens :
          gens[g].pc = "y94" =>
            \/ gens'[g] = gens[g]
            \/ gens'[g] = [gens[g] EXCEPT !.pc = "done"]]_vars

\* two parts and no terminal boundary line: the second part, with a body,
\* came at the end of the input, and the sequence is exhausted
C13_Witness ==
  /\ InnerMode /\ gens[1].pc = "done" /\ error = ""
  /\ \A i \in 1..Len(lines) : lines[i] # TerminalLine
  /\ Len(gens[1].yielded) = 2
  /\ gens[1].yielded[2].payload # ""

(***************************************************************************)
(* C14: while a reader is in its header-reading state, a header line       *)
(* without ':' makes read_multipart fail with an error at that line, in    *)
(* outer and in inner mode: the part whose header block holds the line is  *)
(* never yielded, the reader yields no later part, and the line is not     *)
(* skipped to go on.                                                       *)
(***************************************************************************)
\* the running generator reads, in a header block, a line that is not the
\* blank line and holds no ':'
BadHeaderStep ==
  /\ stack # << >> /\ gens[Top].pc = "run" /\ pos < Len(lines)
  /\ gens[Top].in_headers
  /\ lines[pos + 1] # "\r\n"
  /\ \A i \in 1..Len(lines[pos + 1]) : Char(lines[pos + 1], i) # ":"

\* the generators that are running: the one that reads and, in outer mode,
\* the one that iterates it
Running == { stack[i] : i \in 1..Len(stack) }

\* a generator ended by an exception yields nothing more
FailedStaysFailed ==
  \A g \in Gens : gens[g].pc = "err" => gens'[g] = gens[g]

C14_MalformedHeader ==
  [][/\ BadHeaderStep =>
          /\ error' # "" /\ pos' = pos + 1 /\ stack' = << >>
          /\ \A g \in Running : gens'[g].pc = "err"
          /\ \A g \in Gens : gens'[g].yielded = gens[g].yielded
     /\ FailedStaysFailed]_vars

\* outer mode: the second part has the line; the first part was yielded
\* and both generators failed, with lines left
C14_Witness ==
  /\ gens # << >> /\ gens[1].boundary = None /\ gens[1].pc = "err"
  /\ gens[1].sub # 0 /\ gens[gens[1].sub].pc = "err"
  /\ Len(gens[1].yielded) = 1 /\ pos < Len(lines)
  /\ lines[pos] = "no colon\r\n"

(***************************************************************************)
(* C15: when a header block ends and its Content-Type declares multipart/* *)
(* without a boundary parameter, read_multipart fails with an error at     *)
(* that point, in outer mode (the header block of the envelope) and in     *)
(* inner mode (the header block of a nested part) alike: the part is not   *)
(* yielded as a multipart triple, no nested reader is started, and the     *)
(* failing reader yields nothing further.                                  *)
(***************************************************************************)
\* text holds sub
Contains(text, sub) ==
  \E i \in 1..(Len(text) - Len(sub) + 1) :
     SubSeq(text, i, i + Len(sub) - 1) = sub

\* the running generator reads the blank line that ends a header block
\* whose Content-Type is multipart/* and names no boundary
NoBoundaryStep ==
  /\ stack # << >> /\ gens[Top].pc = "run" /\ pos < Len(lines)
  /\ gens[Top].in_headers
  /\ lines[pos + 1] = "\r\n"
  /\ "content-type" \in DOMAIN gens[Top].headers
  /\ StartsWith(gens[Top].headers["content-type"], "multipart/")
  /\ ~Contains(gens[Top].headers["content-type"], "boundary")

C15_MissingBoundary ==
  [][/\ NoBoundaryStep =>
          /\ error' # "" /\ pos' = pos + 1 /\ stack' = << >>
          /\ Len(gens') = Len(gens)
          /\ \A g \in Running : gens'[g].pc = "err" /\ gens'[g].sub = gens[g].sub
          /\ \A g \in Gens : gens'[g].yielded = gens[g].yielded
     /\ \A g \in Gens :
          (gens[g].pc = "err" /\ error = "KeyError") =>
            (gens'[g].pc = "err" /\ gens'[g].yielded = gens[g].yielded)]_vars

\* inner mode: the second part is multipart/mixed without boundary; the
\* first part was yielded, nothing else, and lines are left
C15_Witness ==
  /\ InnerMode /\ gens[1].pc = "err" /\ error = "KeyError"
  /\ Len(gens) = 1 /\ Len(gens[1].yielded) = 1
  /\ gens[1].headers["content-type"] = "multipart/mixed"
  /\ pos < Len(lines)

(***************************************************************************)
(* C16: on read, each header line 'Name: value' is stored under the        *)
(* lower-cased, trimmed name with the trimmed value (the text after the    *)
(* first ':'); the header mapping of a part holds at most one value per    *)
(* name, and of the lines of one header block with the same name, in any   *)
(* letter case, the last one gives the value kept.                         *)
(***************************************************************************)
\* the line that begins the header block generator g reads at the cursor:
\* the last opening boundary line of its envelope (0: the start, in outer
\* mode)
BlockStart(g) ==
  LET S == { i \in 1..pos : lines[i] = "--" \o gens[g].boundary \o "\r\n" } IN
  IF gens[g].boundary = None \/ S = {} THEN 0
  ELSE CHOOSE i \in S : \A j \in S : j <= i

\* the header mapping of the header lines lines[from..to], the last line of
\* a name giving its value
LastHeaderMap(from, to) ==
  [n \in { NameOf(lines[m]) : m \in from..to } |->
     LET S == { m \in from..to : NameOf(lines[m]) = n } IN
     ValueOf(lines[CHOOSE m \in S : \A k \in S : k <= m])]

C16_HeaderStore ==
  \A g \in Gens :
    (/\ stack # << >> /\ Top = g /\ drained
     /\ gens[g].pc = "run" /\ gens[g].in_headers) =>
      /\ gens[g].headers = LastHeaderMap(BlockStart(g) + 1, pos)
      /\ \A n \in DOMAIN gens[g].headers :
           /\ n = Lower(n) /\ n = Strip(n)
           /\ gens[g].headers[n] = Strip(gens[g].headers[n])

\* a header block with X-Tag and x-tag, Content-Type and CONTENT-TYPE, and
\* a value with a ':' of its own, read to its last line
C16_Witness ==
  /\ InnerMode /\ stack = << 1 >> /\ gens[1].pc = "run" /\ gens[1].in_headers
  /\ gens[1].headers
       = [n \in {"content-type", "x-tag", "x-time"} |->
            IF n = "content-type" THEN "text/x"
            ELSE IF n = "x-tag" THEN "two" ELSE "10:30"]

(***************************************************************************)
(* C17: the header block serializer writes exactly one line 'name: value'  *)
(* per header name, in strictly ascending lexicographic order of the       *)
(* names, followed by one blank line (only the blank line for an empty     *)
(* header set); serializing the same header set twice, whatever the order  *)
(* in which its entries were set, gives the same text byte for byte.       *)
(***************************************************************************)
\* the calls of the serializer on its own
HeaderCalls == { i \in CallIds : calls[i].op = "headers" }

\* the name a header line was written with
RawName(line) == SubSeq(line, 1, IndexFrom(line, ":", 1) - 1)

C17_HeaderBlock ==
  /\ \A i \in HeaderCalls :
       LET h == calls[i].hdrs
           ls == SplitLines(CallText(i))
           n == Cardinality(DOMAIN h)
       IN /\ Len(ls) = n + 1
          /\ ls[n + 1] = "\r\n"
          /\ \A k \in 1..n :
               \E name \in DOMAIN h : ls[k] = HeaderLine(name, h[name])
          /\ \A k \in 1..(n - 1) : StrLess(RawName(ls[k]), RawName(ls[k + 1]))
          /\ CallText(i) = SortedHeaderLines(h) \o "\r\n"
  /\ \A i, j \in HeaderCalls :
       calls[i].hdrs = calls[j].hdrs => CallText(i) = CallText(j)

\* the set {a, ETag, Content-ID} serialized, and serialized again
C17_Witness ==
  /\ Cardinality(HeaderCalls) = 2
  /\ \A i \in HeaderCalls : DOMAIN calls[i].hdrs = {"a", "ETag", "Content-ID"}
  /\ EndsWith(sink, "Content-ID: 1\r\nETag: 1\r\na: 1\r\n\r\n")

(***************************************************************************)
(* C18: the lines before the first opening boundary line of an envelope    *)
(* (the preamble) are ignored by the reader, in inner mode and in outer    *)
(* mode (the lines between the header block of the envelope and the first  *)
(* boundary line): they yield no part, and the j-th part yielded has the   *)
(* headers and the body of the j-th part of the envelope, nothing of the   *)
(* preamble in them.                                                       *)
(***************************************************************************)
\* the first line of the envelope the line source holds
EnvelopeStart == IF InnerMode THEN 1 ELSE HeadEnd + 1

\* the first opening boundary line
FirstOpen == CHOOSE i \in Opens : \A m \in Opens : i <= m

\* the line source is an envelope with a preamble: lines of text before the
\* first part, then parts, and the terminal boundary line at the end
HasPreamble ==
  /\ gens # << >>
  /\ Opens # {}
  /\ FirstOpen > EnvelopeStart
  /\ lines[Len(lines)] = TerminalLine
  /\ \A i \in 1..(Len(lines) - 1) : lines[i] # TerminalLine

C18_PreambleIgnored ==
  HasPreamble =>
    \A g \in Gens :
      LET ys == gens[g].yielded IN
      /\ Len(ys) <= Cardinality(Opens)
      /\ \A j \in 1..Len(ys) :
           /\ ys[j].headers
                = HeaderMap(PartStart(j) + 1, BlankAfter(PartStart(j)) - 1)
           /\ StartsWith(PartBody(j), ys[j].payload)
           /\ Len(PartBody(j)) - Len(ys[j].payload) <= 2

(***************************************************************************)
(* C19: when a Writer is used in a with-block, leaving the scope writes    *)
(* the terminal boundary line of the envelope exactly once, both when the  *)
(* body completes normally and when an add/open call inside the body       *)
(* fails, and a failure raised inside the body still propagates to the     *)
(* caller after the terminal boundary line is written.                     *)
(***************************************************************************)
\* the step that leaves the scope: __exit__
LeavingStep == phase = "exit" /\ phase' = "left"

\* the terminal boundary line of the envelope of the with statement
ScopeTerminal == "--" \o writers[1].boundary \o "--\r\n"

C19_ScopeExit ==
  [][LeavingStep => (sink' = sink \o ScopeTerminal /\ error' = error)]_vars

\* As the code has it: __exit__ calls close() once, in both cases.  When the
\* sink takes the writes of that close, the terminal boundary line is
\* written exactly once and what the body raised propagates; when a write of
\* it raises, the line is not completed and that failure propagates instead.
\* the close made on leaving raised
ExitRaised == error' = SinkError(Len(calls'))

C19_ScopeExitAmended ==
  [][LeavingStep =>
       /\ Len(calls') = Len(calls) + 1
       /\ calls'[Len(calls')].op = "close" /\ calls'[Len(calls')].w = 1
       /\ IF ExitRaised
          THEN /\ StartsWith(sink \o ScopeTerminal, sink')
               /\ sink' # sink \o ScopeTerminal
          ELSE /\ sink' = sink \o ScopeTerminal
               /\ error' = error]_vars

\* an add in the body failed after its boundary line, the scope is left with
\* the terminal boundary line written, and the failure of the add propagates
C19_Witness ==
  /\ phase = "left"
  /\ Len(calls) = 3
  /\ error = SinkError(2)
  /\ calls[2].op = "add" /\ calls[2].accepted = 3
  /\ CallText(2) = "--B1\r\n"
  /\ CallText(3) = "--B1--\r\n"

(***************************************************************************)
(* C20: the Writer keeps no open/closed state and rejects no call: add,    *)
(* open and close never fail on their own in any state (after close, on a  *)
(* parent whose nested Writer is unclosed, on a second close); each call   *)
(* only appends to the shared sink and never alters or removes what is     *)
(* written; the only failures are the write failures of the sink, which    *)
(* propagate unchanged, what was written before them staying written.      *)
(***************************************************************************)
\* the call a step makes, and the writes that call makes when none raises
CallMade == calls'[Len(calls')]

WritesOf(c) ==
  IF c.op = "add"
  THEN AddWrites(writers[c.w].boundary, c.ref, c.mimetype, c.content)
  ELSE IF c.op = "open"
  THEN OpenWrites(writers[c.w].boundary, c.ref, c.subtype,
                  Boundary(Len(writers) + 1))
  ELSE CloseWrites(writers[c.w].boundary)

\* the call made raised: the exception is the one the sink raised in it
CallRaised == error' = SinkError(Len(calls'))

\* close can be called on every Writer the caller holds, closed or not
AcceptsClose == \A w \in Writers : ENABLED Close(w)

C20_NoStateNoRollback ==
  [][/\ phase = "write" => AcceptsClose
     /\ StartsWith(sink', sink)
     /\ Len(calls') = Len(calls) + 1 =>
          LET ws == WritesOf(CallMade) IN
          IF CallRaised
          THEN /\ CallMade.accepted < Len(ws)
               /\ sink' = sink \o Join(SubSeq(ws, 1, CallMade.accepted))
          ELSE /\ sink' = sink \o Join(ws)
               /\ error' = error]_vars

\* the envelope closed, then an add on the closed Writer in which the sink
\* fails at the value of the first header: what was written stays
C20_Witness ==
  /\ Len(calls) = 3
  /\ calls[2].op = "close" /\ calls[2].w = 1
  /\ calls[3].op = "add" /\ calls[3].w = 1
  /\ error = SinkError(3)
  /\ calls[3].accepted = 5
  /\ EndsWith(sink, "--B1--\r\n--B1\r\nContent-Length: ")

(***************************************************************************)
(* C22: pulling a further part from a reader leaves every triple yielded   *)
(* before unchanged: the header mapping delivered with part k still holds  *)
(* the headers of part k after part k+1 is requested, for leaf parts and   *)
(* for multipart parts.                                                    *)
(***************************************************************************)
\* what the header mapping delivered with triple t holds now: the mapping is
\* the headers object of the frame that yielded it
HeadersNow(t) == gens[t.owner].headers

C22_YieldedHeadersKept ==
  \A g \in Gens :
    \A j \in 1..Len(gens[g].yielded) :
      HeadersNow(gens[g].yielded[j]) = gens[g].yielded[j].headers

(***************************************************************************)
(* C23: add, open and the Writer constructor leave the headers mapping the *)
(* caller supplies unchanged, so that a mapping the caller uses again for  *)
(* a later call carries no synthesized Content-Type or Content-Length of   *)
(* an earlier call into the later header block.                            *)
(***************************************************************************)
C23_CallerHeadersKept ==
  /\ dicts = << CallerDict >>
  /\ \A i \in CallIds : calls[i].ref = 1 => calls[i].hdrs = CallerDict

(***************************************************************************)
(* C24: a part whose header block has no Content-Type header, a part with  *)
(* an empty header block included, is handled as a leaf part: the reader   *)
(* does not raise at the end of that header block, and goes on to the body *)
(* of the part, which it yields with is_multipart false.                   *)
(***************************************************************************)
\* the step in which the running generator reads the blank line that ends
\* the header block of a part that has no Content-Type
NoTypeStep ==
  /\ stack # << >>
  /\ gens[Top].pc = "run" /\ gens[Top].in_headers
  /\ gens[Top].boundary # None
  /\ pos < Len(lines) /\ lines[pos + 1] = "\r\n"
  /\ "content-type" \notin DOMAIN gens[Top].headers

C24_UntypedPartIsLeaf ==
  [][NoTypeStep =>
       /\ error' = ""
       /\ stack' = stack
       /\ gens'[Top].pc = "run" /\ ~gens'[Top].in_headers
       /\ Len(gens') = Len(gens)]_vars

(***************************************************************************)
(* C21: in the view server loop, after any sequence of commands the list   *)
(* of registered functions is the functions of the successful add_fun      *)
(* commands since the most recent reset, in order.  reset empties the list *)
(* and answers true; a successful add_fun appends exactly one function and *)
(* answers true; an add_fun whose source fails to execute or does not      *)
(* define exactly one function leaves the list unchanged and answers a     *)
(* map_compilation_error object; map_doc leaves the list unchanged and     *)
(* answers one result list per registered function, in registration order. *)
(***************************************************************************)
\* the name and the argument of the i-th command read
NameOfCommand(i) == commands[i].cmd.items[1].s
ArgOfCommand(i) == commands[i].cmd.items[2]

\* the functions registered by the first n commands: those of the add_fun
\* commands answered true since the last reset
RegisteredAt(n) ==
  LET r == CHOOSE i \in 0..n :
             /\ i = 0 \/ NameOfCommand(i) = "reset"
             /\ \A m \in (i + 1)..n : NameOfCommand(m) # "reset"
      S == { i \in (r + 1)..n :
               NameOfCommand(i) = "add_fun" /\ retvals[i] = JTrue }
  IN [k \in 1..Cardinality(S) |-> ArgOfCommand(Ascending(S)[k]).s]

\* the functions registered by the commands answered so far
Registered == RegisteredAt(Len(retvals))

\* the source executes and defines exactly one function
DefinesOneFunction(string) ==
  ~Exec(string).raised /\ Exec(string).names = 1 /\ Exec(string).isfun

\* v is a map_compilation_error object
IsCompilationError(v) ==
  /\ v.t = "obj" /\ Len(v.items) = 1 /\ v.items[1][1] = "error"
  /\ \E k \in 1..Len(v.items[1][2].items) :
       v.items[1][2].items[k] = << "id", JStr("map_compilation_error") >>

\* the result list of function f for doc: its rows, none when it raises
ResultOf(f, doc) ==
  IF Call(f, doc).raised THEN JList(<< >>) ELSE Rows(Call(f, doc).pairs)

\* the step in which run reads a well-formed command line
CommandStep ==
  /\ phase = "view"
  /\ Len(commands') = Len(commands) + 1
  /\ commands'[Len(commands')].line \in CommandLines

\* the command read in the step: its name and its argument
NameRead == commands'[Len(commands')].cmd.items[1].s
ArgRead == commands'[Len(commands')].cmd.items[2]

\* the command of the step is answered with v
Answers(v) ==
  /\ Len(retvals') = Len(retvals) + 1
  /\ retvals'[Len(retvals')] = v

C21_RegisteredFunctions ==
  [][CommandStep =>
       /\ NameRead = "reset" => (functions' = << >> /\ Answers(JTrue))
       /\ NameRead = "add_fun" =>
            IF DefinesOneFunction(ArgRead.s)
            THEN /\ functions' = Append(functions, ArgRead.s)
                 /\ Answers(JTrue)
            ELSE /\ functions' = functions
                 /\ Len(retvals') = Len(retvals) + 1
                 /\ IsCompilationError(retvals'[Len(retvals')])
       /\ NameRead = "map_doc" =>
            /\ functions' = functions
            /\ Answers(JList([k \in 1..Len(functions) |->
                                ResultOf(functions[k], ArgRead)]))
       /\ functions' = Registered']_vars

(***************************************************************************)
(* C25: for every sequence of well-formed command lines the view server    *)
(* loop writes exactly one newline-terminated response per command, in     *)
(* command order, and each output line is exactly the JSON encoding of the *)
(* return value of that command; also when a map function raises during    *)
(* map_doc, in which case that function contributes an empty result list   *)
(* and the remaining registered functions are still evaluated.             *)
(***************************************************************************)
\* every line read so far is a well-formed command line
WellFormedInput == \A i \in 1..Len(commands) : commands[i].line \in CommandLines

\* the lines of the output: each runs up to and including its "\n"
OutputLines == SplitLines(output)

\* what map_doc returns for doc with the functions funs registered
MapResult(funs, doc) == JList([k \in 1..Len(funs) |-> ResultOf(funs[k], doc)])

C25_OneResponsePerCommand ==
  WellFormedInput =>
    LET out == OutputLines IN
    /\ Len(out) = Len(commands)
    /\ Len(retvals) = Len(commands)
    /\ \A i \in 1..Len(commands) :
         /\ out[i] = Dumps(retvals[i]) \o "\n"
         /\ NameOfCommand(i) = "map_doc" =>
              retvals[i] = MapResult(RegisteredAt(i - 1), ArgOfCommand(i))
====
